---- MODULE Spec2Model ----
(***************************************************************************)
(* A model of exercise/exercise_01.ipynb: the character tokenizer          *)
(* (build_tokenizer, tokenize), the data generation that feeds it          *)
(* (generate_random_sequences), and the Seq2Seq orchestrator (forward,     *)
(* forward_train).                                                         *)
(*                                                                         *)
(* Python strings are sequences of code points, so that a one-character    *)
(* token and a reserved symbol such as "<sos>" are values of one kind and  *)
(* can be compared.  Python's 0-based ids are kept: a list `vocab` is a    *)
(* TLA+ sequence whose element i+1 has id i.                               *)
(***************************************************************************)
EXTENDS Integers, Sequences, FiniteSets, TLC

\* ------------------------------------------------------------------ bounds

\* generate_random_sequences is called with n_seqs in 0..MaxSeqs
MaxSeqs == 2
\* ... and seq_len in 0..MaxSeqLen; the deciphered texts have at most this length too
MaxSeqLen == 2

\* tokenize is called on its own with batches of 0..MaxTexts strings
MaxTexts == 2

\* Seq2Seq.forward is called with max_output_len in 0..MaxOutputLen
MaxOutputLen == 3
\* the decoder's output_size (the target vocabulary's size) is in 3..MaxVocab
MaxVocab == 4

\* Seq2Seq.forward_train is called with tensors of shape (B, L), B in 1..MaxBatch
MaxBatch == 2
\* ... and L in 1..MaxLength
MaxLength == 3

\* The training loop runs n_epochs in 0..MaxEpochs epochs (1000 in the notebook)
MaxEpochs == 2
\* ... over a dataloader of 0..MaxBatches batches
MaxBatches == 2
\* The decipher cell calls the model up to MaxCalls times (10 in the notebook)
MaxCalls == 2

\* --------------------------------------------------------------- constants

\* key = 3
key == 3

\* string.ascii_lowercase / al.ENGLISH, cut down to its first three letters "abc"
ALPHABET == <<97, 98, 99>>

\* The reserved symbols "<sos>", "<eos>", "<unk>" as strings
SOS == <<60, 115, 111, 115, 62>>
EOS == <<60, 101, 111, 115, 62>>
UNK == <<60, 117, 110, 107, 62>>

\* A vocabulary that has not been built, a result that has not been computed
None == [none |-> TRUE]

VARIABLES
    tk_pc,              \* the cell of the tokenizer pipeline that runs next
    n_seqs,             \* generate_random_sequences' arguments n_seqs, seq_len
    seq_len,
    sents,              \* plaintext corpus (list of strings)
    ciphered_sents,     \* the corpus, encrypted
    src_vocab,          \* build_tokenizer(ciphered_sents)
    trg_vocab,          \* build_tokenizer(sents)
    src_tokenized,      \* tokenize(ciphered_sents, src_vocab)
    trg_tokenized,      \* tokenize(sents, trg_vocab)
    ciphered_text,      \* the decipher cell's ciphered_text
    ciphered_text_tokenized  \* tokenize([ciphered_text], src_vocab)

tk_vars == <<tk_pc, n_seqs, seq_len, sents, ciphered_sents, src_vocab, trg_vocab, src_tokenized,
             trg_tokenized, ciphered_text, ciphered_text_tokenized>>

VARIABLES
    tok_sents,          \* the argument sents of a call tokenize(sents, src_vocab)
    tok_retval          \* what the call returned

call_vars == <<tok_sents, tok_retval>>

VARIABLES
    sos_token_id,       \* Seq2Seq.sos_token_id
    eos_token_id,       \* Seq2Seq.eos_token_id
    output_size,        \* Seq2Seq.decoder.output_size
    g_pc,               \* where a call of Seq2Seq.forward stands
    input_tokens,       \* forward's arguments
    max_output_len,
    temperature,        \* in hundredths: 100 is the default 1.0
    hidden,             \* forward's locals
    decoder_input,
    decoder_hidden,
    generated_seqs,
    step,               \* the number of loop iterations begun: range's position
    encoder_calls,      \* how often self.encoder was invoked
    decoder_calls       \* the calls of self.decoder: what it was invoked with and returned

seq2seq_vars == <<sos_token_id, eos_token_id, output_size>>

gen_vars == <<g_pc, input_tokens, max_output_len, temperature, hidden,
              decoder_input, decoder_hidden, generated_seqs, step,
              encoder_calls, decoder_calls>>

VARIABLES
    ft_pc,              \* where a call of Seq2Seq.forward_train stands
    ft_input_tokens,    \* forward_train's arguments input_tokens, output_tokens
    ft_output_tokens,
    ft_output_list,     \* forward_train's locals
    ft_hidden,
    ft_decoder_input,   \* the local named decoder_input
    ft_decoder_inputs,  \* the local named decoder_inputs
    ft_decoder_hidden,
    ft_token,           \* the loop variable token: range's position
    ft_output,          \* the value returned
    ft_decoder_calls    \* the calls of self.decoder: what it was invoked with and returned

ft_vars == <<ft_pc, ft_input_tokens, ft_output_tokens, ft_output_list, ft_hidden,
             ft_decoder_input, ft_decoder_inputs, ft_decoder_hidden, ft_token,
             ft_output, ft_decoder_calls>>

VARIABLES
    loop_pc,            \* where the training loop cell stands
    n_epochs,           \* n_epochs
    n_batches,          \* len(dataloader)
    epoch,              \* epochs completed: the position of range(n_epochs)
    batch,              \* batches completed in this epoch: the dataloader's position
    src,                \* the batch: src, trg
    trg,
    output,             \* output = seq2seq.forward_train(src, trg)
    loss,               \* loss
    loss_values,        \* loss_values
    params,             \* seq2seq.parameters(): the number of updates applied to them
    events,             \* the calls of the loop body, in the order they were made
    decipher_i          \* the decipher cell's loop variable i: calls begun

loop_vars == <<loop_pc, n_epochs, n_batches, epoch, batch, src, trg, output, loss,
               loss_values, params, events, decipher_i>>

vars == <<tk_vars, call_vars, seq2seq_vars, gen_vars, ft_vars, loop_vars>>

\* ------------------------------------------------------------ Python helpers

\* set(xs) for a list or string xs
set(xs) == {xs[i] : i \in DOMAIN xs}

\* "".join(strs)
RECURSIVE join(_)
join(strs) == IF strs = <<>> THEN <<>> ELSE Head(strs) \o join(Tail(strs))

\* A sort in the wrong direction
RECURSIVE sorted_Descending(_)
sorted_Descending(S) ==
    IF S = {} THEN <<>>
    ELSE LET m == CHOOSE x \in S : \A y \in S : x >= y
         IN  <<m>> \o sorted_Descending(S \ {m})

\* sorted(S) of a set of characters: ascending code points
RECURSIVE sorted(_)
sorted(S) ==
    IF S = {} THEN <<>>
    ELSE LET m == CHOOSE x \in S : \A y \in S : x <= y
         IN  <<m>> \o sorted(S \ {m})

\* All strings of length n over the letters of ALPHABET
StringsOfLen(n) == [1..n -> set(ALPHABET)]

\* -------------------------------------------------------------------- cipher

\* alphabet.index(c)
IndexOf(c) == (CHOOSE i \in DOMAIN ALPHABET : ALPHABET[i] = c) - 1

\* CaesarProgressive: the letter at (0-based) position i moves by cipher_key + i
encrypt(text, cipher_key) ==
    [i \in DOMAIN text |->
        ALPHABET[((IndexOf(text[i]) + cipher_key + (i - 1)) % Len(ALPHABET)) + 1]]

decrypt(text, cipher_key) ==
    [i \in DOMAIN text |->
        ALPHABET[((IndexOf(text[i]) - cipher_key - (i - 1)) % Len(ALPHABET)) + 1]]

\* generate_random_sequences, the random.choices draws given as `draws`
\* (one string of length seq_len per iteration).  The result is
\* (ciphered_sents, sents), or an AssertionError.
RECURSIVE generate_loop(_, _, _, _)
generate_loop(cipher_key, draws, acc_sents, acc_ciphered) ==
    IF draws = <<>>
    THEN [raised |-> FALSE, ciphered_sents |-> acc_ciphered, sents |-> acc_sents]
    ELSE LET sequence == Head(draws)
             ciphered_sequence == encrypt(sequence, cipher_key)
         IN  IF sequence # decrypt(ciphered_sequence, cipher_key)
             THEN [raised |-> TRUE, ciphered_sents |-> <<>>, sents |-> <<>>]
             ELSE generate_loop(cipher_key, Tail(draws),
                                Append(acc_sents, sequence),
                                Append(acc_ciphered, ciphered_sequence))

\* A return statement with the two lists in the other order
generate_random_sequences_Swapped(cipher_key, draws) ==
    LET r == generate_loop(cipher_key, draws, <<>>, <<>>)
    IN  [r EXCEPT !.sents = r.ciphered_sents, !.ciphered_sents = r.sents]

generate_random_sequences(cipher_key, draws) ==
    generate_loop(cipher_key, draws, <<>>, <<>>)

\* ----------------------------------------------------------------- tokenizer

\* {token: i for i, token in enumerate(vocab)}: a later entry overwrites an
\* earlier one with the same key
enumerate_stoi(vocab) ==
    [token \in set(vocab) |->
        (CHOOSE i \in DOMAIN vocab :
            /\ vocab[i] = token
            /\ \A j \in DOMAIN vocab : vocab[j] = token => j <= i) - 1]

\* An inverse table built from the list in another order than stoi was
enumerate_itos_Reversed(vocab) ==
    [i \in 0..(Len(vocab) - 1) |-> vocab[Len(vocab) - i]]

\* {i: token for i, token in enumerate(vocab)}
enumerate_itos(vocab) == [i \in 0..(Len(vocab) - 1) |-> vocab[i + 1]]

\* vocab = sorted(list(set("".join(sents)))): a list of one-character strings
sorted_chars(strs) ==
    LET chars == sorted(set(join(strs)))
    IN  [i \in DOMAIN chars |-> <<chars[i]>>]

build_tokenizer(strs) ==
    LET vocab == sorted_chars(strs) \o <<SOS, EOS, UNK>>
        vocab_stoi == enumerate_stoi(vocab)
        vocab_itos == enumerate_itos(vocab)
    IN  [stoi |-> vocab_stoi,
         itos |-> vocab_itos,
         sos_token_id |-> vocab_stoi[SOS],
         eos_token_id |-> vocab_stoi[EOS],
         unk_token_id |-> vocab_stoi[UNK]]

\* A table that stands in a default for a missing key, and keeps it:
\* defaultdict(lambda: unk_token_id, vocab_stoi)
getitem_DefaultDict(vocab, k) ==
    IF k \in DOMAIN vocab.stoi
    THEN [raised |-> FALSE, value |-> vocab.stoi[k], vocab |-> vocab]
    ELSE [raised |-> FALSE, value |-> vocab.unk_token_id,
          vocab |-> [vocab EXCEPT !.stoi =
                        [t \in DOMAIN vocab.stoi \cup {k} |->
                            IF t = k THEN vocab.unk_token_id ELSE vocab.stoi[t]]]]

\* vocab["stoi"][letter] of the plain dict stoi: the id of a key, a KeyError for
\* anything else; the table is only read
getitem(vocab, k) ==
    IF k \in DOMAIN vocab.stoi
    THEN [raised |-> FALSE, value |-> vocab.stoi[k], vocab |-> vocab]
    ELSE [raised |-> TRUE, value |-> 0, vocab |-> vocab]

\* The inner loop of tokenize: _retval.append(vocab["stoi"][letter]) for each
\* letter of rest; a letter that is no key of stoi raises KeyError.  The result
\* carries the vocabulary as the lookups leave it.
RECURSIVE tokenize_letters(_, _, _)
tokenize_letters(rest, vocab, retval) ==
    IF rest = <<>> THEN [raised |-> FALSE, value |-> retval, vocab |-> vocab]
    ELSE LET id == getitem(vocab, <<Head(rest)>>)
         IN  IF id.raised
             THEN [raised |-> TRUE, value |-> <<>>, vocab |-> id.vocab]
             ELSE tokenize_letters(Tail(rest), id.vocab, Append(retval, id.value))

\* An id-sequence whose closing eos is forgotten
tokenize_sent_NoEos(sent, vocab) ==
    tokenize_letters(sent, vocab, <<vocab.sos_token_id>>)

\* One iteration of the outer loop: the id-sequence of one string
tokenize_sent(sent, vocab) ==
    LET body == tokenize_letters(sent, vocab, <<vocab.sos_token_id>>)
    IN  IF body.raised THEN body
        ELSE [body EXCEPT !.value = Append(@, vocab.eos_token_id)]

RECURSIVE tokenize_loop(_, _, _)
tokenize_loop(rest, vocab, retval) ==
    IF rest = <<>> THEN [raised |-> FALSE, value |-> retval, vocab |-> vocab]
    ELSE LET one == tokenize_sent(Head(rest), vocab)
         IN  IF one.raised THEN [raised |-> TRUE, value |-> <<>>, vocab |-> one.vocab]
             ELSE tokenize_loop(Tail(rest), one.vocab, Append(retval, one.value))

\* tokenize(sents, vocab): [raised |-> FALSE, value |-> the list of id-sequences],
\* or [raised |-> TRUE, ...] for the KeyError of an unseen letter; vocab is the
\* dict the caller passed, as the call leaves it
tokenize(strs, vocab) == tokenize_loop(strs, vocab, <<>>)

\* "".join([vocab["itos"][i] for i in seqs]), before the join: the list of tokens
itos_tokens(seqs, vocab) == [i \in DOMAIN seqs |-> vocab.itos[seqs[i]]]

\* --------------------------------------------------- the tokenizer pipeline

\* ciphered_sents, sents = generate_random_sequences(cipher_key=key, ...)
GenerateRandomSequences ==
    /\ tk_pc = "generate"
    /\ \E n \in 0..MaxSeqs, len \in 0..MaxSeqLen :
        \E draws \in [1..n -> StringsOfLen(len)] :
            LET r == generate_random_sequences(key, draws)
            IN  /\ n_seqs' = n
                /\ seq_len' = len
                /\ IF r.raised
                   THEN /\ tk_pc' = "AssertionError"
                        /\ UNCHANGED <<sents, ciphered_sents>>
                   ELSE /\ tk_pc' = "build"
                        /\ sents' = r.sents
                        /\ ciphered_sents' = r.ciphered_sents
    /\ UNCHANGED <<src_vocab, trg_vocab, src_tokenized, trg_tokenized,
                   ciphered_text, ciphered_text_tokenized>>
    /\ UNCHANGED <<call_vars, seq2seq_vars, gen_vars, ft_vars, loop_vars>>

\* src_vocab = build_tokenizer(ciphered_sents); trg_vocab = build_tokenizer(sents)
\* src_tokenized = tokenize(ciphered_sents, src_vocab); trg_tokenized = ...
BuildAndTokenize ==
    /\ tk_pc = "build"
    /\ LET sv == build_tokenizer(ciphered_sents)
           tv == build_tokenizer(sents)
           st == tokenize(ciphered_sents, sv)
           tt == tokenize(sents, tv)
       IN  /\ src_vocab' = st.vocab
           /\ trg_vocab' = IF st.raised THEN tv ELSE tt.vocab
           /\ IF st.raised
              THEN /\ tk_pc' = "KeyError"
                   /\ UNCHANGED <<src_tokenized, trg_tokenized>>
              ELSE /\ src_tokenized' = st.value
                   /\ IF tt.raised
                      THEN /\ tk_pc' = "KeyError"
                           /\ UNCHANGED trg_tokenized
                      ELSE /\ tk_pc' = "decipher"
                           /\ trg_tokenized' = tt.value
    /\ UNCHANGED <<n_seqs, seq_len, sents, ciphered_sents, ciphered_text,
                   ciphered_text_tokenized>>
    /\ UNCHANGED <<call_vars, seq2seq_vars, gen_vars, ft_vars, loop_vars>>

\* The decipher cell up to the call of seq2seq: a text is encrypted and tokenized
\* with the source vocabulary
DecipherTokenize ==
    /\ tk_pc = "decipher"
    /\ \E n \in 0..MaxSeqLen : \E text \in StringsOfLen(n) :
        LET ct == encrypt(text, key)
            r == tokenize(<<ct>>, src_vocab)
        IN  /\ ciphered_text' = ct
            /\ src_vocab' = r.vocab
            /\ IF r.raised
               THEN /\ tk_pc' = "KeyError"
                    /\ UNCHANGED ciphered_text_tokenized
               ELSE /\ tk_pc' = "tokenized"
                    /\ ciphered_text_tokenized' = r.value
    /\ UNCHANGED <<n_seqs, seq_len, sents, ciphered_sents, trg_vocab, src_tokenized,
                   trg_tokenized>>
    /\ UNCHANGED <<call_vars, seq2seq_vars, gen_vars, ft_vars, loop_vars>>

\* The strings of up to MaxSeqLen letters
Texts == UNION {StringsOfLen(n) : n \in 0..MaxSeqLen}

\* A call tokenize(sents, src_vocab) on a batch of any strings, after the
\* tokenizer cell has run
TokenizeCall ==
    /\ tk_pc = "call"
    /\ \E n \in 0..MaxTexts : \E strs \in [1..n -> Texts] :
        LET r == tokenize(strs, src_vocab)
        IN  /\ tok_sents' = strs
            /\ src_vocab' = r.vocab
            /\ IF r.raised
               THEN /\ tk_pc' = "KeyError"
                    /\ UNCHANGED tok_retval
               ELSE /\ tk_pc' = "returned"
                    /\ tok_retval' = r.value
    /\ UNCHANGED <<n_seqs, seq_len, sents, ciphered_sents, trg_vocab, src_tokenized,
                   trg_tokenized, ciphered_text, ciphered_text_tokenized>>
    /\ UNCHANGED <<seq2seq_vars, gen_vars, ft_vars, loop_vars>>

TokNext == GenerateRandomSequences \/ BuildAndTokenize \/ DecipherTokenize

\* ------------------------------------------------------------------- Seq2Seq

\* A tensor is its shape and its entries in row-major order; a Python int is a
\* tensor of shape <<>>.  Unbound stands for a local that is not assigned yet.
Tensor(shape, data) == [shape |-> shape, data |-> data]
Unbound == Tensor(<<>>, <<>>)
NoHidden == [shape |-> <<>>, enc |-> Unbound, fed |-> <<>>]

\* Encoder(..., n_layers=2, ...), hidden_size=32
n_layers == 2
hidden_size == 32

\* An encoder that returns the recurrent layers' per-step outputs, of shape
\* (batch, length, hidden_size)
Encoder_AllSteps(X) ==
    [shape |-> <<X.shape[1], X.shape[2], hidden_size>>, enc |-> X, fed |-> <<>>]

\* Encoder.forward on a batch X of shape (batch, length): the hidden state, of
\* shape (n_layers, batch, hidden_size).  Its content is a function of the input,
\* kept here as the input itself and the tokens a decoder has consumed since.
Encoder(X) ==
    [shape |-> <<n_layers, X.shape[1], hidden_size>>, enc |-> X, fed |-> <<>>]

\* A decoder whose logits keep the step dimension: (batch, 1, output_size)
Decoder_StepDim(tokens, h) ==
    [output |-> [shape |-> <<h.shape[2], 1, output_size>>],
     hidden |-> [h EXCEPT !.fed = Append(@, tokens)]]

\* Decoder.forward on a (batch x 1) tensor of token ids and a hidden state:
\* logits of shape (batch, output_size) and the updated hidden state
Decoder(tokens, h) ==
    [output |-> [shape |-> <<h.shape[2], output_size>>],
     hidden |-> [h EXCEPT !.fed = Append(@, tokens)]]

\* torch.ones((rows, 1), dtype=torch.long) * id
ones_times(rows, id) == Tensor(<<rows, 1>>, [r \in 1..rows |-> id])

\* x.unsqueeze(0)
unsqueeze0(x) == Tensor(<<1>> \o x.shape, x.data)

\* x.item() of a one-element tensor, or the value of a Python int
item(x) == x.data[1]

\* temperature values of the call sites, in hundredths: 0.01 and the default 1.0
Temperatures == {1, 100}

\* probs = softmax(output.squeeze(0) / temperature); torch.multinomial(probs, 1)[0].item():
\* with temperature > 0 every entry of probs is a probability, and the sample is
\* an index into probs
multinomial(logits, temp) == 0..(logits.shape[2] - 1)

\* A loop that runs once too often
LoopContinues_OneMore(i, n) == i <= n

\* for _ in range(max_output_len): another iteration begins
LoopContinues(i, n) == i < n

\* A stopping rule that tests the wrong reserved id
IsEos_TestsSos(id) == id = sos_token_id

\* if decoder_input == self.eos_token_id: break
IsEos(id) == id = eos_token_id

\* An output that leaves the terminal token out
appended_UnlessEos(seqs, id) == IF id = eos_token_id THEN seqs ELSE Append(seqs, id)

\* generated_seqs.append(decoder_input)
appended(seqs, id) == Append(seqs, id)

\* The input sequences forward is called with (token ids of the source vocabulary)
InputSeqs == {Tensor(<<1>>, <<0>>), Tensor(<<2>>, <<1, 0>>)}

\* The models: Seq2Seq(encoder, decoder, eos_token_id=1, sos_token_id=0) of the
\* example cell, or Seq2Seq(..., eos_token_id=trg_eos_token_id,
\* sos_token_id=trg_sos_token_id) with the ids n, n+1 of a vocabulary of n letters
\* (output_size = n + 3), as <<sos_token_id, eos_token_id>>
ReservedIds(size) == {<<0, 1>>, <<size - 3, size - 2>>}

\* A decoder call that is handed the encoder's hidden state at every step
decoder_call_EncoderHidden(tokens, h) ==
    [input |-> tokens, hidden |-> hidden,
     output |-> Decoder(tokens, hidden).output,
     returned |-> Decoder(tokens, hidden).hidden]

\* output, decoder_hidden = self.decoder(decoder_input, decoder_hidden): the
\* call, with what it was handed and what it returned
decoder_call(tokens, h) ==
    [input |-> tokens, hidden |-> h,
     output |-> Decoder(tokens, h).output,
     returned |-> Decoder(tokens, h).hidden]

\* hidden = self.encoder(input_tokens.unsqueeze(0)) and the initialisation of the loop
ForwardEncode ==
    /\ g_pc = "ENCODING"
    /\ hidden' = Encoder(unsqueeze0(input_tokens))
    /\ encoder_calls' = encoder_calls + 1
    /\ decoder_input' = ones_times(1, sos_token_id)
    /\ generated_seqs' = <<>>
    /\ decoder_hidden' = hidden'
    /\ g_pc' = "DECODING"
    /\ UNCHANGED <<input_tokens, max_output_len, temperature, step, decoder_calls>>
    /\ UNCHANGED <<seq2seq_vars, tk_vars, call_vars, ft_vars, loop_vars>>

\* One iteration of the loop, to its end or to the break
ForwardDecodeStep ==
    /\ g_pc = "DECODING"
    /\ LoopContinues(step, max_output_len)
    /\ LET d == decoder_call(decoder_input, decoder_hidden)
       IN  /\ decoder_calls' = Append(decoder_calls, d)
           /\ decoder_hidden' = d.returned
           /\ \E id \in multinomial(d.output, temperature) :
                /\ generated_seqs' = appended(generated_seqs, id)
                /\ IF IsEos(id)
                   THEN /\ decoder_input' = Tensor(<<>>, <<id>>)
                        /\ g_pc' = "DONE"
                   ELSE /\ decoder_input' = ones_times(1, id)
                        /\ g_pc' = "DECODING"
    /\ step' = step + 1
    /\ UNCHANGED <<input_tokens, max_output_len, temperature, hidden, encoder_calls>>
    /\ UNCHANGED <<seq2seq_vars, tk_vars, call_vars, ft_vars, loop_vars>>

\* range(max_output_len) is exhausted: return generated_seqs
ForwardReturn ==
    /\ g_pc = "DECODING"
    /\ ~LoopContinues(step, max_output_len)
    /\ g_pc' = "DONE"
    /\ UNCHANGED <<input_tokens, max_output_len, temperature, hidden, decoder_input,
                   decoder_hidden, generated_seqs, step, encoder_calls, decoder_calls>>
    /\ UNCHANGED <<seq2seq_vars, tk_vars, call_vars, ft_vars, loop_vars>>

GenNext == ForwardEncode \/ ForwardDecodeStep \/ ForwardReturn

\* ------------------------------------------------------------ forward_train

\* x[0] of a tensor of shape (B, L): its first row, of shape (L,)
row0(x) == Tensor(<<x.shape[2]>>, [i \in 1..x.shape[2] |-> x.data[i]])

\* x[:, j].unsqueeze(1) of a tensor of shape (B, L), j counted from 0: the
\* column j as a tensor of shape (B, 1)
column(x, j) ==
    Tensor(<<x.shape[1], 1>>,
           [b \in 1..x.shape[1] |-> x.data[(b - 1) * x.shape[2] + j + 1]])

\* Whether a tensor can stand for an int in a size: it has exactly one element
IsSize(x) == Len(x.data) = 1

\* torch.cat(output_list, dim=1) of a non-empty list of tensors of shape (B, n_i):
\* the shape (B, n_1 + ... + n_k)
RECURSIVE sum_dim1(_)
sum_dim1(list) == IF list = <<>> THEN 0 ELSE Head(list).shape[2] + sum_dim1(Tail(list))
cat_dim1(list) == [shape |-> <<list[1].shape[1], sum_dim1(list)>>]

\* output_list = []; hidden = self.encoder(input_tokens)
TrainEncode ==
    /\ ft_pc = "encode"
    /\ ft_output_list' = <<>>
    /\ ft_hidden' = Encoder(ft_input_tokens)
    /\ ft_pc' = "init"
    /\ UNCHANGED <<ft_input_tokens, ft_output_tokens, ft_decoder_input,
                   ft_decoder_inputs, ft_decoder_hidden, ft_token, ft_output,
                   ft_decoder_calls>>
    /\ UNCHANGED <<seq2seq_vars, tk_vars, call_vars, gen_vars, loop_vars>>

\* decoder_input = torch.ones((input_tokens[0],1), dtype=torch.long) * self.sos_token_id
\* decoder_hidden = hidden
\* The size's first entry is the row input_tokens[0], a tensor: torch.ones takes
\* it for an int when it has one element, and raises a TypeError otherwise.
TrainInit ==
    /\ ft_pc = "init"
    /\ IF IsSize(row0(ft_input_tokens))
       THEN /\ ft_decoder_input' = ones_times(item(row0(ft_input_tokens)), sos_token_id)
            /\ ft_decoder_hidden' = ft_hidden
            /\ ft_pc' = "loop"
       ELSE /\ ft_pc' = "TypeError"
            /\ UNCHANGED <<ft_decoder_input, ft_decoder_hidden>>
    /\ UNCHANGED <<ft_input_tokens, ft_output_tokens, ft_output_list, ft_hidden,
                   ft_decoder_inputs, ft_token, ft_output, ft_decoder_calls>>
    /\ UNCHANGED <<seq2seq_vars, tk_vars, call_vars, gen_vars, loop_vars>>

\* for token in range(hidden.shape[1]-1): another iteration begins
TrainLoopContinues == ft_token < ft_hidden.shape[2] - 1

\* One iteration of the loop.  The decoder is called with the local
\* decoder_inputs, which only the iteration itself assigns: reading it unassigned
\* raises UnboundLocalError.  output_tokens[:, token+1] raises IndexError past
\* the last column.
TrainDecodeStep ==
    /\ ft_pc = "loop"
    /\ TrainLoopContinues
    /\ IF ft_decoder_inputs = Unbound
       THEN /\ ft_pc' = "UnboundLocalError"
            /\ UNCHANGED <<ft_decoder_calls, ft_decoder_hidden, ft_decoder_inputs,
                           ft_output_list, ft_token>>
       ELSE LET d == Decoder(ft_decoder_inputs, ft_decoder_hidden)
            IN  /\ ft_decoder_calls' =
                      Append(ft_decoder_calls,
                             [input |-> ft_decoder_inputs, hidden |-> ft_decoder_hidden,
                              output |-> d.output, returned |-> d.hidden])
                /\ ft_decoder_hidden' = d.hidden
                /\ IF ft_token + 1 < ft_output_tokens.shape[2]
                   THEN /\ ft_decoder_inputs' = column(ft_output_tokens, ft_token + 1)
                        /\ ft_output_list' = Append(ft_output_list, d.output)
                        /\ ft_token' = ft_token + 1
                        /\ ft_pc' = "loop"
                   ELSE /\ ft_pc' = "IndexError"
                        /\ UNCHANGED <<ft_decoder_inputs, ft_output_list, ft_token>>
    /\ UNCHANGED <<ft_input_tokens, ft_output_tokens, ft_hidden, ft_decoder_input,
                   ft_output>>
    /\ UNCHANGED <<seq2seq_vars, tk_vars, call_vars, gen_vars, loop_vars>>

\* output = torch.cat(output_list, dim=1); return output
\* torch.cat raises a RuntimeError on an empty list.
TrainReturn ==
    /\ ft_pc = "loop"
    /\ ~TrainLoopContinues
    /\ IF ft_output_list = <<>>
       THEN /\ ft_pc' = "RuntimeError"
            /\ UNCHANGED ft_output
       ELSE /\ ft_output' = cat_dim1(ft_output_list)
            /\ ft_pc' = "returned"
    /\ UNCHANGED <<ft_input_tokens, ft_output_tokens, ft_output_list, ft_hidden,
                   ft_decoder_input, ft_decoder_inputs, ft_decoder_hidden, ft_token,
                   ft_decoder_calls>>
    /\ UNCHANGED <<seq2seq_vars, tk_vars, call_vars, gen_vars, loop_vars>>

TrainNext == TrainEncode \/ TrainInit \/ TrainDecodeStep \/ TrainReturn

\* The token tensors of shape (B, L) forward_train is called with, entries 0 or 1
TokenTensors(B, L) == {Tensor(<<B, L>>, data) : data \in [1..(B * L) -> {0, 1}]}

\* Another tensor of the same shape: every entry is the other token
other_tokens(x) == Tensor(x.shape, [i \in DOMAIN x.data |-> 1 - x.data[i]])

\* ------------------------------------------------------- the training loop

\* loss before the loop body assigns it
NoLoss == [raised |-> FALSE, terms |-> <<>>, divisor |-> 1]

\* output[:, t, :] and trg[:, t + 1] can be taken: output has three dimensions
\* and a step t, trg a column t + 1
CanIndex(out, targets, t) ==
    /\ Len(out.shape) = 3
    /\ t < out.shape[2]
    /\ t + 1 < targets.shape[2]

\* loss = 0
\* for t in range(trg.shape[1] - 1): loss += loss_func(output[:, t, :], trg[:, t + 1])
\* One term per step: the step whose logits it takes and the targets it compares
\* them with.  An index out of range raises IndexError.
RECURSIVE loss_sum(_, _, _, _)
loss_sum(out, targets, t, terms) ==
    IF t >= targets.shape[2] - 1
    THEN [raised |-> FALSE, terms |-> terms, divisor |-> 1]
    ELSE IF ~CanIndex(out, targets, t)
    THEN [raised |-> TRUE, terms |-> terms, divisor |-> 1]
    ELSE loss_sum(out, targets, t + 1,
                  Append(terms, [logits |-> t, target |-> column(targets, t + 1).data]))

\* loss /= trg.shape[1]
loss_divided(l, targets) == [l EXCEPT !.divisor = targets.shape[2]]

\* The loss of one batch: the sum of the terms, divided
batch_loss(out, targets) ==
    LET l == loss_sum(out, targets, 0, <<>>)
    IN  IF l.raised THEN l ELSE loss_divided(l, targets)

\* The call of forward_train has ended: it returned or it raised
TrainEnded == ft_pc \notin {"idle", "encode", "init", "loop"}

\* for src, trg in dataloader: the next batch (the dataloader shuffles: any
\* batch).  optimizer.zero_grad(), and forward_train is entered.
BatchBegin ==
    /\ loop_pc = "loop"
    /\ epoch < n_epochs
    /\ batch < n_batches
    /\ \E B \in 1..MaxBatch, L \in 1..MaxLength :
         \E s \in TokenTensors(B, L) : \E t \in {s, other_tokens(s)} :
            /\ src' = s
            /\ trg' = t
            /\ ft_input_tokens' = s
            /\ ft_output_tokens' = t
    /\ events' = events \o <<"zero_grad", "forward_train">>
    /\ ft_pc' = "encode"
    /\ ft_output_list' = <<>>
    /\ ft_hidden' = NoHidden
    /\ ft_decoder_input' = Unbound
    /\ ft_decoder_inputs' = Unbound
    /\ ft_decoder_hidden' = NoHidden
    /\ ft_token' = 0
    /\ ft_output' = Unbound
    /\ ft_decoder_calls' = <<>>
    /\ loop_pc' = "forward_train"
    /\ UNCHANGED <<n_epochs, n_batches, epoch, batch, output, loss, loss_values,
                   params, decipher_i>>
    /\ UNCHANGED <<tk_vars, call_vars, seq2seq_vars, gen_vars>>

\* forward_train has ended.  An exception leaves the cell.  Otherwise the rest
\* of the loop body: the loss, loss.backward() (loss is the int 0, without a
\* backward, when no term was added), optimizer.step(), loss_values.append(loss).
BatchEnd ==
    /\ loop_pc = "forward_train"
    /\ TrainEnded
    /\ IF ft_pc # "returned"
       THEN /\ loop_pc' = ft_pc
            /\ UNCHANGED <<output, loss, loss_values, params, events, batch>>
       ELSE LET l == batch_loss(ft_output, trg)
            IN  /\ output' = ft_output
                /\ loss' = l
                /\ IF l.raised \/ l.terms = <<>>
                   THEN /\ loop_pc' = IF l.raised THEN "IndexError" ELSE "AttributeError"
                        /\ events' = Append(events, "loss")
                        /\ UNCHANGED <<loss_values, params, batch>>
                   ELSE /\ loop_pc' = "loop"
                        /\ events' = events \o <<"loss", "backward", "step">>
                        /\ params' = params + 1
                        /\ loss_values' = Append(loss_values, l)
                        /\ batch' = batch + 1
    /\ UNCHANGED <<n_epochs, n_batches, epoch, src, trg, decipher_i>>
    /\ UNCHANGED <<tk_vars, call_vars, seq2seq_vars, gen_vars, ft_vars>>

\* The dataloader is exhausted: the next epoch
EpochEnd ==
    /\ loop_pc = "loop"
    /\ epoch < n_epochs
    /\ batch = n_batches
    /\ epoch' = epoch + 1
    /\ batch' = 0
    /\ UNCHANGED <<loop_pc, n_epochs, n_batches, src, trg, output, loss, loss_values,
                   params, events, decipher_i>>
    /\ UNCHANGED <<tk_vars, call_vars, seq2seq_vars, gen_vars, ft_vars>>

\* A loop whose optimizer.step() has slipped out of the loop body and runs once
\* behind the loop
LoopEnd_StepBehindLoop ==
    /\ loop_pc = "loop"
    /\ epoch = n_epochs
    /\ loop_pc' = "trained"
    /\ params' = params + 1
    /\ events' = Append(events, "step")
    /\ UNCHANGED <<n_epochs, n_batches, epoch, batch, src, trg, output, loss,
                   loss_values, decipher_i>>
    /\ UNCHANGED <<tk_vars, call_vars, seq2seq_vars, gen_vars, ft_vars>>

\* range(n_epochs) is exhausted: pbar.close(); seq2seq.eval()
LoopEnd ==
    /\ loop_pc = "loop"
    /\ epoch = n_epochs
    /\ loop_pc' = "trained"
    /\ UNCHANGED <<n_epochs, n_batches, epoch, batch, src, trg, output, loss,
                   loss_values, params, events, decipher_i>>
    /\ UNCHANGED <<tk_vars, call_vars, seq2seq_vars, gen_vars, ft_vars>>

\* The decipher cell, after training: seqs = seq2seq(..., max_output_len=...,
\* temperature=...) is entered for the next text
DecipherCall ==
    /\ loop_pc = "trained"
    /\ g_pc \in {"idle", "DONE"}
    /\ decipher_i < MaxCalls
    /\ decipher_i' = decipher_i + 1
    /\ g_pc' = "ENCODING"
    /\ input_tokens' \in InputSeqs
    /\ max_output_len' \in 0..MaxOutputLen
    /\ temperature' \in Temperatures
    /\ hidden' = NoHidden
    /\ decoder_input' = Unbound
    /\ decoder_hidden' = NoHidden
    /\ generated_seqs' = <<>>
    /\ step' = 0
    /\ encoder_calls' = 0
    /\ decoder_calls' = <<>>
    /\ UNCHANGED <<loop_pc, n_epochs, n_batches, epoch, batch, src, trg, output, loss,
                   loss_values, params, events>>
    /\ UNCHANGED <<tk_vars, call_vars, seq2seq_vars, ft_vars>>

\* The loss of the loop body on its own: loss = 0, the loop over t, loss /= ...
LossCompute ==
    /\ loop_pc = "loss"
    /\ loss' = batch_loss(output, trg)
    /\ loop_pc' = IF loss'.raised THEN "IndexError" ELSE "loss_done"
    /\ events' = Append(events, "loss")
    /\ UNCHANGED <<n_epochs, n_batches, epoch, batch, src, trg, output, loss_values,
                   params, decipher_i>>
    /\ UNCHANGED <<tk_vars, call_vars, seq2seq_vars, gen_vars, ft_vars>>

LoopNext ==
    \/ BatchBegin \/ TrainEncode \/ TrainInit \/ TrainDecodeStep \/ TrainReturn
    \/ BatchEnd \/ EpochEnd \/ LoopEnd
    \/ DecipherCall \/ ForwardEncode \/ ForwardDecodeStep \/ ForwardReturn

\* ----------------------------------------------------------- specifications

\* The notebook before its data is generated; the model is the example cell's
\* and is not called
InitTok ==
    /\ tk_pc = "generate"
    /\ n_seqs = 0
    /\ seq_len = 0
    /\ sents = <<>>
    /\ ciphered_sents = <<>>
    /\ src_vocab = None
    /\ trg_vocab = None
    /\ src_tokenized = None
    /\ trg_tokenized = None
    /\ ciphered_text = <<>>
    /\ ciphered_text_tokenized = None
    /\ tok_sents = <<>>
    /\ tok_retval = None
    /\ sos_token_id = 0
    /\ eos_token_id = 1
    /\ output_size = 3
    /\ g_pc = "idle"
    /\ input_tokens = Unbound
    /\ max_output_len = 0
    /\ temperature = 100
    /\ hidden = NoHidden
    /\ decoder_input = Unbound
    /\ decoder_hidden = NoHidden
    /\ generated_seqs = <<>>
    /\ step = 0
    /\ encoder_calls = 0
    /\ decoder_calls = <<>>
    /\ ft_pc = "idle"
    /\ ft_input_tokens = Unbound
    /\ ft_output_tokens = Unbound
    /\ ft_output_list = <<>>
    /\ ft_hidden = NoHidden
    /\ ft_decoder_input = Unbound
    /\ ft_decoder_inputs = Unbound
    /\ ft_decoder_hidden = NoHidden
    /\ ft_token = 0
    /\ ft_output = Unbound
    /\ ft_decoder_calls = <<>>
    /\ loop_pc = "idle"
    /\ n_epochs = 0
    /\ n_batches = 0
    /\ epoch = 0
    /\ batch = 0
    /\ src = Unbound
    /\ trg = Unbound
    /\ output = Unbound
    /\ loss = NoLoss
    /\ loss_values = <<>>
    /\ params = 0
    /\ events = <<>>
    /\ decipher_i = 0

\* The tokenizer pipeline: data generation, the two vocabularies, tokenization
SpecTok == InitTok /\ [][TokNext]_vars

\* The notebook after the tokenizer cell has run on a corpus of one sentence of
\* 0..MaxSeqLen letters: both vocabularies are built, both corpora tokenized
InitLookup ==
    /\ tk_pc = "call"
    /\ \E len \in 0..MaxSeqLen : \E draws \in [1..1 -> StringsOfLen(len)] :
          LET r == generate_random_sequences(key, draws)
          IN  /\ n_seqs = 1
              /\ seq_len = len
              /\ sents = r.sents
              /\ ciphered_sents = r.ciphered_sents
    /\ src_vocab = build_tokenizer(ciphered_sents)
    /\ trg_vocab = build_tokenizer(sents)
    /\ src_tokenized = tokenize(ciphered_sents, src_vocab).value
    /\ trg_tokenized = tokenize(sents, trg_vocab).value
    /\ ciphered_text = <<>>
    /\ ciphered_text_tokenized = None
    /\ tok_sents = <<>>
    /\ tok_retval = None
    /\ sos_token_id = 0
    /\ eos_token_id = 1
    /\ output_size = 3
    /\ g_pc = "idle"
    /\ input_tokens = Unbound
    /\ max_output_len = 0
    /\ temperature = 100
    /\ hidden = NoHidden
    /\ decoder_input = Unbound
    /\ decoder_hidden = NoHidden
    /\ generated_seqs = <<>>
    /\ step = 0
    /\ encoder_calls = 0
    /\ decoder_calls = <<>>
    /\ ft_pc = "idle"
    /\ ft_input_tokens = Unbound
    /\ ft_output_tokens = Unbound
    /\ ft_output_list = <<>>
    /\ ft_hidden = NoHidden
    /\ ft_decoder_input = Unbound
    /\ ft_decoder_inputs = Unbound
    /\ ft_decoder_hidden = NoHidden
    /\ ft_token = 0
    /\ ft_output = Unbound
    /\ ft_decoder_calls = <<>>
    /\ loop_pc = "idle"
    /\ n_epochs = 0
    /\ n_batches = 0
    /\ epoch = 0
    /\ batch = 0
    /\ src = Unbound
    /\ trg = Unbound
    /\ output = Unbound
    /\ loss = NoLoss
    /\ loss_values = <<>>
    /\ params = 0
    /\ events = <<>>
    /\ decipher_i = 0

\* One call of tokenize with the source vocabulary
SpecLookup == InitLookup /\ [][TokenizeCall]_vars

\* A model has been constructed and seq2seq(input_tokens, max_output_len=...,
\* temperature=...) is entered: the arguments are bound, no local is
Init ==
    /\ tk_pc = "generate"
    /\ n_seqs = 0
    /\ seq_len = 0
    /\ sents = <<>>
    /\ ciphered_sents = <<>>
    /\ src_vocab = None
    /\ trg_vocab = None
    /\ src_tokenized = None
    /\ trg_tokenized = None
    /\ ciphered_text = <<>>
    /\ ciphered_text_tokenized = None
    /\ tok_sents = <<>>
    /\ tok_retval = None
    /\ output_size \in 3..MaxVocab
    /\ \E ids \in ReservedIds(output_size) :
          sos_token_id = ids[1] /\ eos_token_id = ids[2]
    /\ g_pc = "ENCODING"
    /\ input_tokens \in InputSeqs
    /\ max_output_len \in 0..MaxOutputLen
    /\ temperature \in Temperatures
    /\ hidden = NoHidden
    /\ decoder_input = Unbound
    /\ decoder_hidden = NoHidden
    /\ generated_seqs = <<>>
    /\ step = 0
    /\ encoder_calls = 0
    /\ decoder_calls = <<>>
    /\ ft_pc = "idle"
    /\ ft_input_tokens = Unbound
    /\ ft_output_tokens = Unbound
    /\ ft_output_list = <<>>
    /\ ft_hidden = NoHidden
    /\ ft_decoder_input = Unbound
    /\ ft_decoder_inputs = Unbound
    /\ ft_decoder_hidden = NoHidden
    /\ ft_token = 0
    /\ ft_output = Unbound
    /\ ft_decoder_calls = <<>>
    /\ loop_pc = "idle"
    /\ n_epochs = 0
    /\ n_batches = 0
    /\ epoch = 0
    /\ batch = 0
    /\ src = Unbound
    /\ trg = Unbound
    /\ output = Unbound
    /\ loss = NoLoss
    /\ loss_values = <<>>
    /\ params = 0
    /\ events = <<>>
    /\ decipher_i = 0

\* One call of Seq2Seq.forward.  Python runs the call to its end: a step that
\* can be taken is taken.
Spec == Init /\ [][GenNext]_vars /\ WF_vars(GenNext)
\* A model has been constructed and seq2seq.forward_train(input_tokens,
\* output_tokens) is entered, with the same tensor twice (the example cell) or
\* with two tensors of one shape (the training loop)
InitTrain ==
    /\ tk_pc = "generate"
    /\ n_seqs = 0
    /\ seq_len = 0
    /\ sents = <<>>
    /\ ciphered_sents = <<>>
    /\ src_vocab = None
    /\ trg_vocab = None
    /\ src_tokenized = None
    /\ trg_tokenized = None
    /\ ciphered_text = <<>>
    /\ ciphered_text_tokenized = None
    /\ tok_sents = <<>>
    /\ tok_retval = None
    /\ output_size \in 3..MaxVocab
    /\ \E ids \in ReservedIds(output_size) :
          sos_token_id = ids[1] /\ eos_token_id = ids[2]
    /\ g_pc = "idle"
    /\ input_tokens = Unbound
    /\ max_output_len = 0
    /\ temperature = 100
    /\ hidden = NoHidden
    /\ decoder_input = Unbound
    /\ decoder_hidden = NoHidden
    /\ generated_seqs = <<>>
    /\ step = 0
    /\ encoder_calls = 0
    /\ decoder_calls = <<>>
    /\ ft_pc = "encode"
    /\ \E B \in 1..MaxBatch, L \in 1..MaxLength :
          /\ ft_input_tokens \in TokenTensors(B, L)
          /\ ft_output_tokens \in {ft_input_tokens, other_tokens(ft_input_tokens)}
    /\ ft_output_list = <<>>
    /\ ft_hidden = NoHidden
    /\ ft_decoder_input = Unbound
    /\ ft_decoder_inputs = Unbound
    /\ ft_decoder_hidden = NoHidden
    /\ ft_token = 0
    /\ ft_output = Unbound
    /\ ft_decoder_calls = <<>>
    /\ loop_pc = "idle"
    /\ n_epochs = 0
    /\ n_batches = 0
    /\ epoch = 0
    /\ batch = 0
    /\ src = Unbound
    /\ trg = Unbound
    /\ output = Unbound
    /\ loss = NoLoss
    /\ loss_values = <<>>
    /\ params = 0
    /\ events = <<>>
    /\ decipher_i = 0

\* One call of Seq2Seq.forward_train, run to its end
SpecTrain == InitTrain /\ [][TrainNext]_vars /\ WF_vars(TrainNext)


\* A model has been constructed and the training loop cell is entered, with
\* n_epochs epochs to run over a dataloader of n_batches batches
InitLoop ==
    /\ tk_pc = "generate"
    /\ n_seqs = 0
    /\ seq_len = 0
    /\ sents = <<>>
    /\ ciphered_sents = <<>>
    /\ src_vocab = None
    /\ trg_vocab = None
    /\ src_tokenized = None
    /\ trg_tokenized = None
    /\ ciphered_text = <<>>
    /\ ciphered_text_tokenized = None
    /\ tok_sents = <<>>
    /\ tok_retval = None
    /\ output_size \in 3..MaxVocab
    /\ \E ids \in ReservedIds(output_size) :
          sos_token_id = ids[1] /\ eos_token_id = ids[2]
    /\ g_pc = "idle"
    /\ input_tokens = Unbound
    /\ max_output_len = 0
    /\ temperature = 100
    /\ hidden = NoHidden
    /\ decoder_input = Unbound
    /\ decoder_hidden = NoHidden
    /\ generated_seqs = <<>>
    /\ step = 0
    /\ encoder_calls = 0
    /\ decoder_calls = <<>>
    /\ ft_pc = "idle"
    /\ ft_input_tokens = Unbound
    /\ ft_output_tokens = Unbound
    /\ ft_output_list = <<>>
    /\ ft_hidden = NoHidden
    /\ ft_decoder_input = Unbound
    /\ ft_decoder_inputs = Unbound
    /\ ft_decoder_hidden = NoHidden
    /\ ft_token = 0
    /\ ft_output = Unbound
    /\ ft_decoder_calls = <<>>
    /\ loop_pc = "loop"
    /\ n_epochs \in 0..MaxEpochs
    /\ n_batches \in 0..MaxBatches
    /\ epoch = 0
    /\ batch = 0
    /\ src = Unbound
    /\ trg = Unbound
    /\ output = Unbound
    /\ loss = NoLoss
    /\ loss_values = <<>>
    /\ params = 0
    /\ events = <<>>
    /\ decipher_i = 0

\* The training loop cell and, once it has ended, the decipher cell
SpecLoop == InitLoop /\ [][LoopNext]_vars


\* The loop body after forward_train, had it returned what its docstring
\* says: for a batch src, trg of shape (B, L), logits of shape (B, L-1, output_size)
InitLoss ==
    /\ tk_pc = "generate"
    /\ n_seqs = 0
    /\ seq_len = 0
    /\ sents = <<>>
    /\ ciphered_sents = <<>>
    /\ src_vocab = None
    /\ trg_vocab = None
    /\ src_tokenized = None
    /\ trg_tokenized = None
    /\ ciphered_text = <<>>
    /\ ciphered_text_tokenized = None
    /\ tok_sents = <<>>
    /\ tok_retval = None
    /\ output_size \in 3..MaxVocab
    /\ \E ids \in ReservedIds(output_size) :
          sos_token_id = ids[1] /\ eos_token_id = ids[2]
    /\ g_pc = "idle"
    /\ input_tokens = Unbound
    /\ max_output_len = 0
    /\ temperature = 100
    /\ hidden = NoHidden
    /\ decoder_input = Unbound
    /\ decoder_hidden = NoHidden
    /\ generated_seqs = <<>>
    /\ step = 0
    /\ encoder_calls = 0
    /\ decoder_calls = <<>>
    /\ ft_pc = "idle"
    /\ ft_input_tokens = Unbound
    /\ ft_output_tokens = Unbound
    /\ ft_output_list = <<>>
    /\ ft_hidden = NoHidden
    /\ ft_decoder_input = Unbound
    /\ ft_decoder_inputs = Unbound
    /\ ft_decoder_hidden = NoHidden
    /\ ft_token = 0
    /\ ft_output = Unbound
    /\ ft_decoder_calls = <<>>
    /\ loop_pc = "loss"
    /\ n_epochs = 1
    /\ n_batches = 1
    /\ epoch = 0
    /\ batch = 0
    /\ \E B \in 1..MaxBatch, L \in 1..MaxLength :
          /\ src \in TokenTensors(B, L)
          /\ trg = other_tokens(src)
          /\ output = [shape |-> <<B, L - 1, output_size>>]
    /\ loss = NoLoss
    /\ loss_values = <<>>
    /\ params = 0
    /\ events = <<"zero_grad", "forward_train">>
    /\ decipher_i = 0

\* The loss computation of one batch
SpecLoss == InitLoss /\ [][LossCompute]_vars

\* ------------------------------------------------------------------- claims

Last(seq) == seq[Len(seq)]

\* The call has reached the loop (generated_seqs is assigned)
Looping == g_pc \in {"DECODING", "DONE"}

\* C1: for every input and every max_output_len M >= 0, forward invokes the
\* decoder at most M times, terminates, and the sequence it returns has at most
\* M elements, whatever tokens are sampled.
C1_BoundedTermination ==
    /\ [](/\ Len(decoder_calls) <= max_output_len
          /\ Len(generated_seqs) <= max_output_len)
    /\ <>(g_pc = "DONE")

\* A call that used its whole budget of (at least two) steps and returned
C1_Witness ==
    /\ g_pc = "DONE"
    /\ max_output_len >= 2
    /\ Len(decoder_calls) = max_output_len
    /\ Len(generated_seqs) = max_output_len
    /\ eos_token_id \notin set(generated_seqs)

\* C2, as stated: the call returns fewer than M tokens iff the eos id was sampled.
C2_EarlyIffEos ==
    g_pc = "DONE" =>
        (Len(generated_seqs) < max_output_len <=> eos_token_id \in set(generated_seqs))

\* C2, amended: the call returns fewer than M tokens iff the eos id was sampled at
\* one of the first M-1 steps; an eos sampled at step M ends the call with M tokens.
C2_EarlyIffEosBeforeLast ==
    g_pc = "DONE" =>
        /\ Len(generated_seqs) < max_output_len
             <=> \E i \in 1..(max_output_len - 1) :
                    i \in DOMAIN generated_seqs /\ generated_seqs[i] = eos_token_id
        /\ (/\ eos_token_id \in set(generated_seqs)
            /\ Len(generated_seqs) >= max_output_len)
              => /\ Len(generated_seqs) = max_output_len
                 /\ Last(generated_seqs) = eos_token_id

\* A call that stopped before its budget was used up, on eos
C2_Witness ==
    /\ g_pc = "DONE"
    /\ temperature > 0
    /\ Len(generated_seqs) < max_output_len
    /\ Last(generated_seqs) = eos_token_id

\* C3: the eos id occurs in generated_seqs only as its last element, and once it
\* is the last element the call has ended: nothing is appended after it.
C3_EosOnlyLast ==
    Looping =>
        /\ \A i \in 1..(Len(generated_seqs) - 1) : generated_seqs[i] # eos_token_id
        /\ (generated_seqs # <<>> /\ Last(generated_seqs) = eos_token_id)
              => g_pc = "DONE"

\* A returned sequence of several tokens that ends with eos
C3_Witness ==
    /\ g_pc = "DONE"
    /\ Len(generated_seqs) >= 2
    /\ Last(generated_seqs) = eos_token_id
    /\ Len(decoder_calls) = Len(generated_seqs)

\* C4: ENCODING, DECODING, DONE in that order; one encoder pass, before
\* the first decoder step; a decoder step only in DECODING, while the last sampled
\* token is not eos and fewer than max_output_len steps were taken; DONE on eos or
\* on exhaustion, and nothing changes after DONE.
C4_Step ==
    /\ g_pc = "ENCODING" =>
          /\ g_pc' = "DECODING"
          /\ encoder_calls = 0 /\ encoder_calls' = 1
          /\ decoder_calls = <<>> /\ decoder_calls' = <<>>
    /\ g_pc = "DECODING" =>
          /\ g_pc' \in {"DECODING", "DONE"}
          /\ encoder_calls = 1 /\ encoder_calls' = 1
    /\ (g_pc = "DECODING" /\ g_pc' = "DECODING") =>
          /\ Len(decoder_calls) < max_output_len
          /\ Len(decoder_calls') = Len(decoder_calls) + 1
          /\ Last(generated_seqs') # eos_token_id
    /\ (g_pc = "DECODING" /\ g_pc' = "DONE") =>
          \/ /\ generated_seqs' # <<>>
             /\ Last(generated_seqs') = eos_token_id
          \/ /\ Len(decoder_calls) = max_output_len
             /\ UNCHANGED <<generated_seqs, decoder_calls>>
    /\ decoder_calls' # decoder_calls =>
          /\ g_pc = "DECODING"
          /\ Len(decoder_calls) < max_output_len
          /\ generated_seqs = <<>> \/ Last(generated_seqs) # eos_token_id
    /\ g_pc = "DONE" =>
          UNCHANGED <<g_pc, generated_seqs, decoder_calls, encoder_calls>>

C4_StateMachine == [][C4_Step]_vars

\* A call that went through all three states with several decoder steps
C4_Witness ==
    /\ g_pc = "DONE"
    /\ encoder_calls = 1
    /\ Len(decoder_calls) >= 2

\* C5, as stated: for any max_output_len the returned sequence is non-empty and
\* holds only ids of 0..output_size-1.
C5_NonEmptyInRange ==
    g_pc = "DONE" =>
        /\ generated_seqs # <<>>
        /\ \A i \in DOMAIN generated_seqs : generated_seqs[i] \in 0..(output_size - 1)

\* C5, amended: for max_output_len >= 1 the returned sequence is non-empty, and
\* for any max_output_len it holds only ids of 0..output_size-1.
C5_NonEmptyInRangeFromOne ==
    g_pc = "DONE" =>
        /\ max_output_len >= 1 => generated_seqs # <<>>
        /\ \A i \in DOMAIN generated_seqs : generated_seqs[i] \in 0..(output_size - 1)

\* A call with a budget of several steps that returns the single token eos
C5_Witness ==
    /\ g_pc = "DONE"
    /\ max_output_len >= 2
    /\ generated_seqs = <<eos_token_id>>

\* The tokenizer pipeline has built both vocabularies and tokenized both corpora
Tokenized == tk_pc \in {"decipher", "tokenized"}

\* The token list of an id-sequence without the reserved symbols, joined
strip_reserved(tokens) == SelectSeq(tokens, LAMBDA t : t \notin {SOS, EOS, UNK})
detokenize(seqs, vocab) == join(strip_reserved(itos_tokens(seqs, vocab)))

\* C8: for every string s over the letters of the corpus a vocabulary was built
\* from, the ids of tokenize([s], vocab)[0], mapped back through itos and with
\* the reserved symbols stripped, spell s.
C8_RoundTrip ==
    /\ Tokenized =>
          /\ \A k \in DOMAIN sents :
                detokenize(trg_tokenized[k], trg_vocab) = sents[k]
          /\ \A k \in DOMAIN ciphered_sents :
                detokenize(src_tokenized[k], src_vocab) = ciphered_sents[k]
    /\ tk_pc = "tokenized" =>
          detokenize(ciphered_text_tokenized[1], src_vocab) = ciphered_text

\* A text of two different letters that is no sentence of the corpus, tokenized
C8_Witness ==
    /\ tk_pc = "tokenized"
    /\ Len(ciphered_text) = 2
    /\ ciphered_text[1] # ciphered_text[2]
    /\ ciphered_text \notin set(ciphered_sents)
    /\ Len(ciphered_sents) >= 1

\* What C9 says of one vocabulary built from one corpus
DenseSortedVocabulary(vocab, strs) ==
    LET chars == set(join(strs))
        n == Cardinality(chars)
    IN  /\ DOMAIN vocab.itos = 0..(n + 2)
        /\ \A i \in 0..(n - 1) :
              /\ Len(vocab.itos[i]) = 1
              /\ vocab.itos[i][1] \in chars
        /\ \A i, j \in 0..(n - 1) : i < j => vocab.itos[i][1] < vocab.itos[j][1]
        /\ vocab.itos[n] = SOS /\ vocab.itos[n + 1] = EOS /\ vocab.itos[n + 2] = UNK
        /\ vocab.sos_token_id = n
        /\ vocab.eos_token_id = n + 1
        /\ vocab.unk_token_id = n + 2
        /\ DOMAIN vocab.stoi = {<<c>> : c \in chars} \cup {SOS, EOS, UNK}
        /\ \A token \in DOMAIN vocab.stoi : vocab.itos[vocab.stoi[token]] = token
        /\ \A i \in DOMAIN vocab.itos : vocab.stoi[vocab.itos[i]] = i

\* C9: ids 0..n-1 go to the n distinct letters of the corpus in sorted order, ids
\* n, n+1, n+2 to <sos>, <eos>, <unk>; stoi and itos are mutually inverse
\* bijections onto 0..n+2; and two corpora with the same letters get the same
\* vocabulary, whatever their order and duplicates.
C9_DenseSortedDeterministic ==
    Tokenized \/ tk_pc = "KeyError" =>
        /\ DenseSortedVocabulary(trg_vocab, sents)
        /\ DenseSortedVocabulary(src_vocab, ciphered_sents)
        /\ set(join(sents)) = set(join(ciphered_sents)) => src_vocab = trg_vocab

\* Two different corpora of the same three letters, in different orders
C9_Witness ==
    /\ Tokenized
    /\ set(join(sents)) = set(join(ciphered_sents))
    /\ Cardinality(set(join(sents))) = 3
    /\ join(sents) # join(ciphered_sents)
    /\ join(sents) # sorted(set(join(sents)))
    /\ src_vocab = trg_vocab

\* What C10 says of one call tokenize(strs, vocab) that returned retval
WrappedIds(retval, strs, vocab) ==
    /\ Len(retval) = Len(strs)
    /\ \A k \in DOMAIN strs :
          /\ Len(retval[k]) = Len(strs[k]) + 2
          /\ retval[k][1] = vocab.sos_token_id
          /\ retval[k][Len(retval[k])] = vocab.eos_token_id
          /\ \A i \in 1..Len(strs[k]) : retval[k][i + 1] = vocab.stoi[<<strs[k][i]>>]

\* C10: tokenize returns one id-sequence per string, in input order; the one
\* of string s has length len(s)+2, starts with sos_token_id, ends with eos_token_id
\* and has stoi[s[i]] at index i+1.
C10_Wrapped ==
    /\ Tokenized =>
          /\ WrappedIds(trg_tokenized, sents, trg_vocab)
          /\ WrappedIds(src_tokenized, ciphered_sents, src_vocab)
    /\ tk_pc = "tokenized" =>
          WrappedIds(ciphered_text_tokenized, <<ciphered_text>>, src_vocab)

\* A batch of two different strings, and the empty string, tokenized
C10_Witness ==
    /\ tk_pc = "tokenized"
    /\ Len(sents) = 2
    /\ sents[1] # sents[2]
    /\ Len(sents[1]) = 2
    /\ ciphered_text = <<>>
    /\ ciphered_text_tokenized = <<<<src_vocab.sos_token_id, src_vocab.eos_token_id>>>>

\* The batch of the call holds a letter the source corpus does not
UnseenLetter ==
    \E k \in DOMAIN tok_sents : \E i \in DOMAIN tok_sents[k] :
        tok_sents[k][i] \notin set(join(ciphered_sents))

\* C11: tokenize on a batch with a letter that is not in the vocabulary raises
\* KeyError (and on no other batch); it emits no unk_token_id and returns nothing,
\* and the vocabulary is afterwards what build_tokenizer made of the corpus.
C11_UnseenRaises ==
    tk_pc \in {"returned", "KeyError"} =>
        /\ tk_pc = "KeyError" <=> UnseenLetter
        /\ tk_pc = "KeyError" => tok_retval = None
        /\ tk_pc = "returned" =>
              /\ Len(tok_retval) = Len(tok_sents)
              /\ \A k \in DOMAIN tok_retval :
                    src_vocab.unk_token_id \notin set(tok_retval[k])
        /\ src_vocab = build_tokenizer(ciphered_sents)

\* A batch whose first string tokenizes and whose second string has an unseen
\* letter behind a seen one: the call raised
C11_Witness ==
    /\ tk_pc = "KeyError"
    /\ Len(tok_sents) = 2
    /\ tok_sents[1] # <<>>
    /\ ~tokenize(<<tok_sents[1]>>, src_vocab).raised
    /\ Len(tok_sents[2]) = 2
    /\ <<tok_sents[2][1]>> \in DOMAIN src_vocab.stoi
    /\ <<tok_sents[2][2]>> \notin DOMAIN src_vocab.stoi
    /\ tok_retval = None

\* The calls of one cycle of the training loop, in order
Cycle == <<"zero_grad", "forward_train", "loss", "backward", "step">>

RECURSIVE Cycles(_)
Cycles(n) == IF n = 0 THEN <<>> ELSE Cycle \o Cycles(n - 1)

\* The training loop cell has been left: the loop ended or an exception did
LoopOver == loop_pc \notin {"idle", "loop", "forward_train"}

\* C12: every batch triggers one cycle zero_grad, forward_train, loss, backward,
\* optimizer.step, in that order and one cycle after the other; the loop ends
\* having made n_epochs * len(dataloader) cycles and as many optimizer updates.
C12_OneCyclePerBatch ==
    /\ \E n \in 0..(n_epochs * n_batches) : \E k \in 0..Len(Cycle) :
          events = Cycles(n) \o SubSeq(Cycle, 1, k)
    /\ LoopOver =>
          /\ loop_pc = "trained"
          /\ events = Cycles(n_epochs * n_batches)
          /\ params = n_epochs * n_batches

C16_CipherRoundTrip ==
    /\ tk_pc # "AssertionError"
    /\ tk_pc # "generate" =>
          /\ Len(sents) = n_seqs
          /\ Len(ciphered_sents) = n_seqs
          /\ \A i \in 1..n_seqs :
                /\ Len(sents[i]) = seq_len
                /\ ciphered_sents[i] = encrypt(sents[i], key)
                /\ decrypt(ciphered_sents[i], key) = sents[i]

\* Two different sentences of two letters, each unlike its encryption
C16_Witness ==
    /\ tk_pc = "build"
    /\ n_seqs = 2
    /\ seq_len = 2
    /\ sents[1] # sents[2]
    /\ ciphered_sents[1] # sents[1]
    /\ ciphered_sents[2] # sents[2]

\* C17: in generation, decoder step 1 receives the sos id and the encoder's
\* hidden state; step t >= 2 receives the token sampled at step t-1 and the
\* hidden state step t-1 returned; the encoder's hidden state goes to step 1 only
\* and no hidden state goes to two steps.
C17_HiddenThreading ==
    Looping =>
        /\ hidden = Encoder(unsqueeze0(input_tokens))
        /\ \A t \in DOMAIN decoder_calls :
              IF t = 1
              THEN /\ decoder_calls[t].input = Tensor(<<1, 1>>, <<sos_token_id>>)
                   /\ decoder_calls[t].hidden = hidden
              ELSE /\ decoder_calls[t].input = Tensor(<<1, 1>>, <<generated_seqs[t - 1]>>)
                   /\ decoder_calls[t].hidden = decoder_calls[t - 1].returned
                   /\ decoder_calls[t].hidden # hidden
        /\ \A t, u \in DOMAIN decoder_calls :
              t # u => decoder_calls[t].hidden # decoder_calls[u].hidden

\* Three decoder steps: the third received the token and the hidden state of the
\* second, and the tokens sampled at steps one and two differ
C17_Witness ==
    /\ Len(decoder_calls) >= 3
    /\ generated_seqs[1] # generated_seqs[2]
    /\ decoder_calls[3].input = Tensor(<<1, 1>>, <<generated_seqs[2]>>)
    /\ decoder_calls[3].hidden = decoder_calls[2].returned

\* C18: no step of forward, of forward_train or of the decipher cell changes the
\* parameters or the model's sos and eos ids; the parameters change only in the
\* optimizer.step of a cycle of the training loop, one update at a time, and
\* not once the loop has ended.
C18_Step ==
    /\ sos_token_id' = sos_token_id
    /\ eos_token_id' = eos_token_id
    /\ params' # params =>
          /\ loop_pc = "forward_train"
          /\ loop_pc' = "loop"
          /\ params' = params + 1
          /\ events' = events \o <<"loss", "backward", "step">>
    /\ (g_pc' # g_pc \/ ft_pc' # ft_pc \/ decoder_calls' # decoder_calls) =>
          params' = params
    /\ loop_pc = "trained" => (params' = params /\ events' = events)

C18_ParamsFrame == [][C18_Step]_vars

\* The training loop has ended, the decipher cell has called the model twice and
\* the second call has made decoder steps: the parameters have as many updates as
\* the loop made optimizer steps
C18_Witness ==
    /\ loop_pc = "trained"
    /\ decipher_i = 2
    /\ g_pc = "DONE"
    /\ Len(decoder_calls) >= 2
    /\ params = Len(SelectSeq(events, LAMBDA e : e = "step"))

\* C19: forward_train on a batch of shape (B, L), B >= 2 and L >= 2, reads no
\* variable that is not assigned, raises nothing, and reaches its return statement.
C19_TrainRunsToReturn ==
    (ft_input_tokens.shape[1] >= 2 /\ ft_input_tokens.shape[2] >= 2) =>
        /\ ft_pc \notin {"TypeError", "UnboundLocalError", "IndexError", "RuntimeError"}
        /\ (ft_pc = "loop" /\ TrainLoopContinues) => ft_decoder_inputs # Unbound

\* C6: on inputs and targets of shape (B, L), B >= 1 and L >= 2, forward_train
\* invokes the decoder exactly L-1 times and returns logits of shape
\* (B, L-1, output_size).
C6_TrainShape ==
    (TrainEnded /\ ft_input_tokens.shape[2] >= 2) =>
        /\ ft_pc = "returned"
        /\ Len(ft_decoder_calls) = ft_input_tokens.shape[2] - 1
        /\ ft_output.shape =
              <<ft_input_tokens.shape[1], ft_input_tokens.shape[2] - 1, output_size>>

\* C7: the decoder input of the first step is a batch of sos ids, that of every
\* later step t is the column t of output_tokens: so it is when an iteration is
\* about to call the decoder, and a call on a batch with L >= 2 ends having made
\* its steps with these inputs.
C7_TeacherForcing ==
    /\ (ft_pc = "loop" /\ TrainLoopContinues) =>
          ft_decoder_inputs =
              IF ft_token = 0
              THEN ones_times(ft_input_tokens.shape[1], sos_token_id)
              ELSE column(ft_output_tokens, ft_token)
    /\ (TrainEnded /\ ft_input_tokens.shape[2] >= 2) =>
          /\ ft_pc = "returned"
          /\ Len(ft_decoder_calls) >= 1
          /\ ft_decoder_calls[1].input =
                ones_times(ft_input_tokens.shape[1], sos_token_id)
          /\ \A t \in 2..Len(ft_decoder_calls) :
                ft_decoder_calls[t].input = column(ft_output_tokens, t - 1)

====
